---- MODULE Spec2Model ----
(***************************************************************************)
(* Model of infra/github-linguist/linguist_wrapper.py: LinguistWrapper,    *)
(* the archive language analyzer.  One wrapper object, a temporary-file    *)
(* area (fs) and the invocations of analyze_zip, each stepping through     *)
(* the pipeline: path check, temporary directory, extraction, root         *)
(* detection, git bootstrap, classifier run, aggregation, cleanup.         *)
(*                                                                         *)
(* Paths are sequences of names; a path in the temporary area starts with  *)
(* the name of its temporary directory.  Percentages are kept in           *)
(* hundredths (25.00 is 2500), so round(x, 2) is an integer rounding.      *)
(***************************************************************************)
EXTENDS Integers, Sequences, FiniteSets, TLC

VARIABLES self, fs, pc, zip, tmpdir, project_root, proc, outcome, log

vars == <<self, fs, pc, zip, tmpdir, project_root, proc, outcome, log>>

(***************************************************************************)
(* Bounds of the model.                                                    *)
(***************************************************************************)
\* Largest byte size the classifier reports for one language.
MaxSize == 2

\* Bytes one f.read takes.  The code reads 1 << 20 bytes at a time; the
\* model reads a few, so that its short files span several chunks.
ChunkSize == 2

\* Longest file whose line count is checked byte by byte.
MaxFileLen == 4

\* Invocation slots; Spec runs invocation 1 (again and again), slot 2 stays off.
Invs == {1, 2}

\* Names tempfile may give a fresh temporary directory.
TmpNames == {"tmpA", "tmpB"}

\* Language names the classifier may report.
Languages == {"Python", "JavaScript", "Ruby"}

\* Exit codes of the classifier process (negative: killed by a signal).
ReturnCodes == {0, 1, 2, -9}

\* Texts the classifier may write to standard error.
Stderrs == {"", "boom"}

(***************************************************************************)
(* The wrapper object.                                                     *)
(***************************************************************************)
\* LinguistWrapper.__init__: the three configuration fields.
Wrapper(use_docker) ==
    [use_docker |-> use_docker,
     linguist_cmd |-> "github-linguist",
     docker_image |-> "linguist"]

(***************************************************************************)
(* Files.  A node is a directory or a regular file; a regular file carries *)
(* its bytes, of which only "being a newline" matters, and whether the     *)
(* process may open it for reading.                                        *)
(***************************************************************************)
NL == "\n"

Dir(path) == [path |-> path, kind |-> "dir", bytes |-> <<>>, readable |-> TRUE]

File(path, bytes) == [path |-> path, kind |-> "file", bytes |-> bytes, readable |-> TRUE]

\* A regular file the process has no permission to read.
Unreadable(path, bytes) ==
    [path |-> path, kind |-> "file", bytes |-> bytes, readable |-> FALSE]

\* The entry of the given kind at a path of an archive ("absent": none).
Entry(path, kind, bytes) ==
    CASE kind = "dir" -> {Dir(path)}
      [] kind = "file" -> {File(path, bytes)}
      [] OTHER -> {}

\* What the one wrapped folder "project" may hold.
Nested ==
    { {},
      {Dir(<<"project", "inner">>)},
      {File(<<"project", "main.py">>, <<"x", NL, "y", NL>>)},
      {File(<<"project", "main.py">>, <<"x", NL, "y", NL>>),
       Dir(<<"project", "inner">>)},
      {File(<<"project", "main.py">>, <<"x", NL, "y", NL>>),
       Unreadable(<<"project", "inner">>, <<NL, NL, NL>>)} }

\* The archives: every combination of the top-level entries __MACOSX,
\* project and extra, each absent, a directory or a file, and under a
\* directory project one of the Nested contents.
Archives ==
    UNION { IF p = "dir"
            THEN { Entry(<<"__MACOSX">>, m, <<>>) \cup {Dir(<<"project">>)} \cup n
                     \cup Entry(<<"extra">>, e, <<"z", NL>>) : n \in Nested }
            ELSE { Entry(<<"__MACOSX">>, m, <<>>) \cup Entry(<<"project">>, p, <<NL>>)
                     \cup Entry(<<"extra">>, e, <<"z", NL>>) }
          : m \in {"absent", "dir", "file"},
            p \in {"absent", "dir", "file"},
            e \in {"absent", "dir", "file"} }

\* A set of nodes holding the parent directory of each of its nodes.
ParentClosed(nodes) ==
    \A n \in nodes :
        Len(n.path) > 1 =>
            \E d \in nodes : d.kind = "dir" /\ d.path = SubSeq(n.path, 1, Len(n.path) - 1)

\* The inputs of analyze_zip: a path that is no regular file, a file that is
\* no ZIP archive at all ("header"), an archive one of whose members does not
\* decode ("member"), and the sound archives.
NoZip == [is_file |-> FALSE, corrupt |-> "none", nodes |-> {}]

ZipInputs ==
    {NoZip}
    \cup {[is_file |-> TRUE, corrupt |-> "header", nodes |-> {}]}
    \cup {[is_file |-> TRUE, corrupt |-> c, nodes |-> a] :
              c \in {"none", "member"}, a \in Archives}

\* path is dir itself or lies under it.
Under(dir, path) ==
    Len(path) >= Len(dir) /\ SubSeq(path, 1, Len(dir)) = dir

\* Path.iterdir: the nodes directly inside dir.
IterDir(fsys, dir) ==
    {n \in fsys : Len(n.path) = Len(dir) + 1 /\ Under(dir, n.path)}

\* Path.name: the last component.
Name(n) == n.path[Len(n.path)]

\* The archive's nodes placed under the directory dest (ZipFile.extractall).
ExtractAll(nodes, dest) ==
    {[n EXCEPT !.path = dest \o n.path] : n \in nodes}

(***************************************************************************)
(* The classifier's output.  Standard output is either text json.loads     *)
(* rejects or the text of a JSON value; a JSON object maps language names  *)
(* to entries, an entry being an object with optional "size" and "files"   *)
(* members or some other value.                                            *)
(***************************************************************************)
NoMap == [l \in {} |-> 0]

JsonScalar(type, val) == [type |-> type, val |-> val, map |-> NoMap]

JsonObject(map) == [type |-> "object", val |-> 0, map |-> map]

\* An entry {"size": size, "files": files}, either member possibly missing.
Info(has_size, size, has_files, files) ==
    [isdict |-> TRUE, has_size |-> has_size, size |-> size,
     has_files |-> has_files, files |-> files]

\* An entry that is no object, such as the number in {"Python": 1}.
NotInfo == [isdict |-> FALSE, has_size |-> FALSE, size |-> 0,
            has_files |-> FALSE, files |-> <<>>]

\* File lists are sequences of paths relative to the project root.
Infos ==
    {Info(TRUE, s, TRUE, <<<<"main.py">>>>) : s \in 0..MaxSize}
    \cup {Info(FALSE, 0, TRUE, <<<<"main.py">>, <<"inner">>>>),
          Info(TRUE, MaxSize, FALSE, <<>>),
          Info(TRUE, 1, TRUE, <<>>)}

\* The breakdown reports: every non-empty set of languages, every entry.
Reports ==
    UNION {[d -> Infos] : d \in SUBSET Languages \ {{}}}

\* The JSON values the classifier may print: the falsy ones (null, false, 0,
\* "", [], {}), truthy values that are no object, an object with an entry
\* that is no object, and the breakdown reports.
JsonValues ==
    {JsonScalar("null", 0), JsonScalar("bool", 0), JsonScalar("number", 0),
     JsonScalar("string", 0), JsonScalar("array", 0), JsonObject(NoMap),
     JsonScalar("bool", 1), JsonScalar("number", 1), JsonScalar("string", 1),
     JsonScalar("array", 1),
     JsonObject([l \in {"Python"} |-> NotInfo])}
    \cup {JsonObject(r) : r \in Reports}

Garbage == [parseable |-> FALSE, value |-> JsonScalar("null", 0)]

Stdouts == {Garbage} \cup {[parseable |-> TRUE, value |-> v] : v \in JsonValues}

\* Python's truth value of a decoded JSON value (the `not breakdown_data` test).
Truthy(v) == IF v.type = "object" THEN DOMAIN v.map # {} ELSE v.val # 0

(***************************************************************************)
(* Outcomes of an invocation: a returned mapping or a raised exception.    *)
(***************************************************************************)
NoOutcome ==
    [kind |-> "none", exc |-> "", code |-> 0, stderr |-> "", msg |-> "", value |-> NoMap]

Return(value) == [NoOutcome EXCEPT !.kind = "return", !.value = value]

Raise(exc, msg) == [NoOutcome EXCEPT !.kind = "raise", !.exc = exc, !.msg = msg]

(***************************************************************************)
(* _count_lines and _collect_language_stats.                               *)
(***************************************************************************)
RECURSIVE CountNewlines(_)
\* chunk.count(b"\n")
CountNewlines(bytes) ==
    IF bytes = <<>> THEN 0
    ELSE (IF Head(bytes) = NL THEN 1 ELSE 0) + CountNewlines(Tail(bytes))

\* f.read(n) with the file position at pos: the next n bytes, fewer at the
\* end of the file, none after it.
FRead(bytes, pos, n) ==
    SubSeq(bytes, pos + 1, IF pos + n < Len(bytes) THEN pos + n ELSE Len(bytes))

RECURSIVE CountChunksFullOnly(_, _)
\* A plausible slip: the loop ends at the first chunk shorter than a read.
CountChunksFullOnly(bytes, pos) ==
    LET chunk == FRead(bytes, pos, ChunkSize)
    IN  IF Len(chunk) < ChunkSize THEN 0
        ELSE CountNewlines(chunk) + CountChunksFullOnly(bytes, pos + Len(chunk))

RECURSIVE CountChunks(_, _)
\* sum(chunk.count(b"\n") for chunk in iter(lambda: f.read(1 << 20), b""))
\* from the file position pos on.
CountChunks(bytes, pos) ==
    LET chunk == FRead(bytes, pos, ChunkSize)
    IN  IF chunk = <<>> THEN 0
        ELSE CountNewlines(chunk) + CountChunks(bytes, pos + Len(chunk))

\* info.get("size", 0)
GetSize(info) == IF info.has_size THEN info.size ELSE 0

\* info.get("files", [])
GetFiles(info) == IF info.has_files THEN info.files ELSE <<>>

\* What file_path.open("rb") raises ("none": the file opens).  The paths of
\* the file lists have one component, so every parent is a directory.
OpenError(fsys, file_path) ==
    IF ~\E n \in fsys : n.path = file_path THEN "FileNotFoundError"
    ELSE LET n == CHOOSE m \in fsys : m.path = file_path
         IN  IF n.kind = "dir" THEN "IsADirectoryError"
             ELSE IF ~n.readable THEN "PermissionError"
             ELSE "none"

\* A plausible slip: PermissionError left out of the except clause.
CaughtErrorsNoPermission == {"IsADirectoryError", "FileNotFoundError"}

\* except (IsADirectoryError, FileNotFoundError, PermissionError)
CaughtErrors == {"IsADirectoryError", "FileNotFoundError", "PermissionError"}

\* _count_lines on a path that opens or whose error is caught: the newline
\* bytes of the file, or 0.
CountLines(fsys, file_path) ==
    IF OpenError(fsys, file_path) = "none"
    THEN CountChunks((CHOOSE n \in fsys : n.path = file_path).bytes, 0)
    ELSE 0

\* The errors _count_lines lets through for the files of a report.
UncaughtErrors(data, fsys, repo_dir) ==
    UNION { {OpenError(fsys, repo_dir \o GetFiles(data[l])[k]) :
                 k \in 1..Len(GetFiles(data[l]))} : l \in DOMAIN data }
        \ (CaughtErrors \cup {"none"})

RECURSIVE SumOver(_, _)
\* sum(f[x] for x in the keys s)
SumOver(f, s) ==
    IF s = {} THEN 0
    ELSE LET x == CHOOSE y \in s : TRUE IN f[x] + SumOver(f, s \ {x})

RECURSIVE SumLines(_, _, _)
\* sum(self._count_lines(repo_dir / f) for f in files)
SumLines(fsys, repo_dir, files) ==
    IF files = <<>> THEN 0
    ELSE CountLines(fsys, repo_dir \o Head(files)) + SumLines(fsys, repo_dir, Tail(files))

RECURSIVE MaxOver(_, _)
\* max(f[x] for x in the keys s), 0 for no keys
MaxOver(f, s) ==
    IF s = {} THEN 0
    ELSE LET x == CHOOSE y \in s : TRUE
             rest == MaxOver(f, s \ {x})
         IN  IF f[x] > rest THEN f[x] ELSE rest

\* A plausible slip: the largest size taken for the total.
TotalBytesOfLargest(data) ==
    LET s == MaxOver([l \in DOMAIN data |-> GetSize(data[l])], DOMAIN data)
    IN  IF s = 0 THEN 1 ELSE s

\* A plausible slip: guarding the division by adding 1 to the sum.
TotalBytesPlusOne(data) ==
    SumOver([l \in DOMAIN data |-> GetSize(data[l])], DOMAIN data) + 1

\* A plausible slip: summing only the entries that list files.
TotalBytesOfListed(data) ==
    LET listed == {l \in DOMAIN data : GetFiles(data[l]) # <<>>}
        s == SumOver([l \in listed |-> GetSize(data[l])], listed)
    IN  IF s = 0 THEN 1 ELSE s

\* total_bytes = sum(item.get("size", 0) for item in data.values()) or 1
TotalBytes(data) ==
    LET s == SumOver([l \in DOMAIN data |-> GetSize(data[l])], DOMAIN data)
    IN  IF s = 0 THEN 1 ELSE s

\* The integer nearest to num / den (den > 0), a tie going to the even one.
RoundHalfEven(num, den) ==
    LET q == num \div den
        r == num % den
    IN  IF 2 * r < den THEN q
        ELSE IF 2 * r > den THEN q + 1
        ELSE IF q % 2 = 0 THEN q ELSE q + 1

\* round(size * 100.0 / total_bytes, 2), in hundredths.  The float quotient
\* is the double nearest to size * 100 / total_bytes and round() rounds that
\* double correctly, so the result is the nearest hundredth of the exact
\* quotient; an exact tie needs total_bytes to be a multiple of 32.
Percent(size, total_bytes) == RoundHalfEven(size * 10000, total_bytes)

\* A plausible slip: leaving out the languages that have no bytes.
StatsOfNonEmpty(data, fsys, repo_dir) ==
    LET total_bytes == TotalBytes(data)
    IN  [language \in {l \in DOMAIN data : GetSize(data[l]) # 0} |->
            [percent |-> Percent(GetSize(data[language]), total_bytes),
             lines |-> SumLines(fsys, repo_dir, GetFiles(data[language]))]]

\* The loop of _collect_language_stats: one {"percent", "lines"} per entry.
Stats(data, fsys, repo_dir) ==
    LET total_bytes == TotalBytes(data)
    IN  [language \in DOMAIN data |->
            [percent |-> Percent(GetSize(data[language]), total_bytes),
             lines |-> SumLines(fsys, repo_dir, GetFiles(data[language]))]]

\* A plausible slip: no test for an empty result.
CollectOutcomeNoEmptyTest(stdout, fsys, repo_dir) ==
    IF ~stdout.parseable THEN Raise("JSONDecodeError", "")
    ELSE IF stdout.value.type # "object" THEN Raise("AttributeError", "values")
    ELSE IF \E l \in DOMAIN stdout.value.map : ~stdout.value.map[l].isdict
    THEN Raise("AttributeError", "get")
    ELSE IF UncaughtErrors(stdout.value.map, fsys, repo_dir) # {}
    THEN Raise(CHOOSE e \in UncaughtErrors(stdout.value.map, fsys, repo_dir) : TRUE, "open")
    ELSE Return(Stats(stdout.value.map, fsys, repo_dir))

\* _run_linguist_breakdown's json.loads and the rest of
\* _collect_language_stats, on the text the classifier printed: what is
\* returned or raised.
CollectOutcome(stdout, fsys, repo_dir) ==
    IF ~stdout.parseable THEN Raise("JSONDecodeError", "")
    ELSE IF ~Truthy(stdout.value)
    THEN Raise("RuntimeError", "github-linguist returned empty result")
    ELSE IF stdout.value.type # "object" THEN Raise("AttributeError", "values")
    ELSE IF \E l \in DOMAIN stdout.value.map : ~stdout.value.map[l].isdict
    THEN Raise("AttributeError", "get")
    ELSE IF UncaughtErrors(stdout.value.map, fsys, repo_dir) # {}
    THEN Raise(CHOOSE e \in UncaughtErrors(stdout.value.map, fsys, repo_dir) : TRUE, "open")
    ELSE Return(Stats(stdout.value.map, fsys, repo_dir))

(***************************************************************************)
(* _detect_project_root.                                                   *)
(***************************************************************************)
\* A plausible slip: the __MACOSX entry is not left out.
DetectCountingMacosx(fsys, extract_dir) ==
    LET entries == IterDir(fsys, extract_dir)
        subdirs == {p \in entries : p.kind = "dir"}
        files == {p \in entries : p.kind = "file"}
    IN  IF Cardinality(subdirs) = 1 /\ files = {}
        THEN (CHOOSE p \in subdirs : TRUE).path
        ELSE extract_dir

\* A plausible slip: the enclosing folder is never unwrapped.
DetectNoUnwrap(fsys, extract_dir) == extract_dir

RECURSIVE DetectDescending(_, _)
\* A plausible slip: unwrapping again inside the chosen subdirectory.
DetectDescending(fsys, extract_dir) ==
    LET entries == {p \in IterDir(fsys, extract_dir) : Name(p) # "__MACOSX"}
        subdirs == {p \in entries : p.kind = "dir"}
        files == {p \in entries : p.kind = "file"}
    IN  IF Cardinality(subdirs) = 1 /\ files = {}
        THEN DetectDescending(fsys, (CHOOSE p \in subdirs : TRUE).path)
        ELSE extract_dir

\* _detect_project_root
DetectProjectRoot(fsys, extract_dir) ==
    LET entries == {p \in IterDir(fsys, extract_dir) : Name(p) # "__MACOSX"}
        subdirs == {p \in entries : p.kind = "dir"}
        files == {p \in entries : p.kind = "file"}
    IN  IF Cardinality(subdirs) = 1 /\ files = {}
        THEN (CHOOSE p \in subdirs : TRUE).path
        ELSE extract_dir

(***************************************************************************)
(* The state of an invocation.                                             *)
(*   pc            where the invocation stands: "off", "idle", "mkdtemp",  *)
(*                 "extract", "detect", "git_init", "git_add",             *)
(*                 "git_commit", "linguist", "collect", "exit" (leaving    *)
(*                 the with block), "returned", "raised"                   *)
(*   zip           the input zip_path refers to                            *)
(*   tmpdir        the name of its temporary directory ("": none yet)      *)
(*   project_root  the path _detect_project_root chose                     *)
(*   proc          the classifier process: command line and result         *)
(*   outcome       what it returns or raises                               *)
(*   log           the steps it started, in order, each with its success   *)
(***************************************************************************)
NoCmd == [prog |-> "", image |-> "", user |-> "", volume |-> <<>>, readonly |-> FALSE,
          workdir |-> "", args |-> <<>>, cwd |-> <<>>]

NoProc == [ran |-> FALSE, cmd |-> NoCmd, returncode |-> 0, stdout |-> Garbage, stderr |-> ""]

\* What a failing classifier may have printed: nothing, or a whole report.
FailStdouts ==
    {Garbage,
     [parseable |-> TRUE,
      value |-> JsonObject([l \in {"Python"} |-> Info(TRUE, 1, TRUE, <<<<"main.py">>>>)])]}

\* The command line and working directory _execute_linguist builds.
Cmd(w, args, repo_dir) ==
    IF w.use_docker
    THEN [prog |-> "docker", image |-> w.docker_image, user |-> "st_uid:st_gid",
          volume |-> repo_dir, readonly |-> TRUE, workdir |-> "/repo",
          args |-> args, cwd |-> <<>>]
    ELSE [prog |-> w.linguist_cmd, image |-> "", user |-> "", volume |-> <<>>,
          readonly |-> FALSE, workdir |-> "", args |-> args, cwd |-> repo_dir]

Logged(i, step, ok) == [log EXCEPT ![i] = Append(@, [step |-> step, ok |-> ok])]

Init ==
    /\ self \in {Wrapper(d) : d \in BOOLEAN}
    /\ fs = {}
    /\ pc = [i \in Invs |-> IF i = 1 THEN "idle" ELSE "off"]
    /\ zip = [i \in Invs |-> NoZip]
    /\ tmpdir = [i \in Invs |-> ""]
    /\ project_root = [i \in Invs |-> <<>>]
    /\ proc = [i \in Invs |-> NoProc]
    /\ outcome = [i \in Invs |-> NoOutcome]
    /\ log = [i \in Invs |-> <<>>]

\* The byte sequences of at most MaxFileLen bytes, a byte being a newline or not.
ByteSeqs == UNION {[1..n -> {"x", NL}] : n \in 0..MaxFileLen}

\* An archive of two top-level files.
TwoFiles(a, b) == {File(<<"a.txt">>, a), File(<<"b.txt">>, b)}

\* The state of invocation 1 when _collect_language_stats has the
\* classifier's output for an archive in hand: extracted into tmpA, root
\* detected, git repository made, the classifier exited 0 having printed out.
AtCollect(w, nodes, out) ==
    LET dest == <<"tmpA">>
        extracted == {Dir(dest)} \cup ExtractAll(nodes, dest)
        root == DetectProjectRoot(extracted, dest)
    IN  /\ self = w
        /\ fs = extracted \cup {Dir(root \o <<".git">>)}
        /\ pc = [i \in Invs |-> IF i = 1 THEN "collect" ELSE "off"]
        /\ zip = [i \in Invs |->
                     IF i = 1 THEN [is_file |-> TRUE, corrupt |-> "none", nodes |-> nodes]
                     ELSE NoZip]
        /\ tmpdir = [i \in Invs |-> IF i = 1 THEN "tmpA" ELSE ""]
        /\ project_root = [i \in Invs |-> IF i = 1 THEN root ELSE <<>>]
        /\ proc = [i \in Invs |->
                      IF i = 1
                      THEN [ran |-> TRUE,
                            cmd |-> Cmd(w, <<"--breakdown", "--json", ".">>, root),
                            returncode |-> 0, stdout |-> out, stderr |-> ""]
                      ELSE NoProc]
        /\ outcome = [i \in Invs |-> NoOutcome]
        /\ log = [i \in Invs |->
                     IF i = 1
                     THEN [k \in 1..7 |->
                              [step |-> <<"mkdtemp", "extract", "detect", "git init",
                                          "git add", "git commit", "linguist">>[k],
                               ok |-> TRUE]]
                     ELSE <<>>]

\* Line counting on its own: an archive of two files of any bytes, all
\* attributed to one language, at the point where aggregation starts.
InitCount ==
    \E w \in {Wrapper(d) : d \in BOOLEAN}, a \in ByteSeqs, b \in ByteSeqs :
        AtCollect(w, TwoFiles(a, b),
                  [parseable |-> TRUE,
                   value |-> JsonObject([l \in {"Python"} |->
                                 Info(TRUE, 1, TRUE, <<<<"a.txt">>, <<"b.txt">>>>)])])

\* Two invocations at once: both slots are ready to be called.
InitConc ==
    /\ self \in {Wrapper(d) : d \in BOOLEAN}
    /\ fs = {}
    /\ pc = [i \in Invs |-> "idle"]
    /\ zip = [i \in Invs |-> NoZip]
    /\ tmpdir = [i \in Invs |-> ""]
    /\ project_root = [i \in Invs |-> <<>>]
    /\ proc = [i \in Invs |-> NoProc]
    /\ outcome = [i \in Invs |-> NoOutcome]
    /\ log = [i \in Invs |-> <<>>]

\* A wrapped project of one file, and a bare file of the same name.
WrappedArchive == {Dir(<<"project">>), File(<<"project", "main.py">>, <<"x", NL, "y", NL>>)}

BareArchive == {File(<<"main.py">>, <<NL>>)}

\* The inputs of the concurrent invocations.
ConcZips ==
    {NoZip,
     [is_file |-> TRUE, corrupt |-> "member", nodes |-> WrappedArchive],
     [is_file |-> TRUE, corrupt |-> "none", nodes |-> WrappedArchive],
     [is_file |-> TRUE, corrupt |-> "none", nodes |-> BareArchive]}

\* What the classifier prints in the concurrent invocations.
ConcStdouts ==
    {Garbage,
     [parseable |-> TRUE,
      value |-> JsonObject([l \in {"Python"} |-> Info(TRUE, 1, TRUE, <<<<"main.py">>>>)])]}

\* The bytes of a text of n lines, each one character and a newline.
TextOfLines(n) == [k \in 1..2 * n |-> IF k % 2 = 0 THEN NL ELSE "x"]

\* The archive project/main.py (10 lines), project/lib.js (30 lines).
ProjectArchive ==
    {Dir(<<"project">>),
     File(<<"project", "main.py">>, TextOfLines(10)),
     File(<<"project", "lib.js">>, TextOfLines(30))}

\* {"Python": {"size": 250, "files": ["main.py"]},
\*  "JavaScript": {"size": 750, "files": ["lib.js"]}}
ProjectReport ==
    [parseable |-> TRUE,
     value |-> JsonObject(
         [l \in {"Python", "JavaScript"} |->
             IF l = "Python" THEN Info(TRUE, 250, TRUE, <<<<"main.py">>>>)
             ELSE Info(TRUE, 750, TRUE, <<<<"lib.js">>>>)])]

\* The inputs of the end-to-end runs: that archive, sound or with a member
\* that does not decode, and a path that is no file.
ProjectZips ==
    {NoZip} \cup {[is_file |-> TRUE, corrupt |-> c, nodes |-> ProjectArchive] :
                     c \in {"none", "member"}}

\* What the classifier prints in the end-to-end runs.
ProjectStdouts == {Garbage, [parseable |-> TRUE, value |-> JsonObject(NoMap)], ProjectReport}

\* A plausible slip: the path test moved inside the with block.
AnalyzeZipLateTest(i, inputs) ==
    /\ pc[i] = "idle"
    /\ \E z \in inputs :
        /\ zip' = [zip EXCEPT ![i] = z]
        /\ pc' = [pc EXCEPT ![i] = "mkdtemp"]
        /\ UNCHANGED outcome
    /\ UNCHANGED <<self, fs, tmpdir, project_root, proc, log>>

\* analyze_zip is called with a path: the is_file test.
AnalyzeZip(i, inputs) ==
    /\ pc[i] = "idle"
    /\ \E z \in inputs :
        /\ zip' = [zip EXCEPT ![i] = z]
        /\ IF ~z.is_file
           THEN /\ outcome' = [outcome EXCEPT ![i] = Raise("FileNotFoundError", "File not found")]
                /\ pc' = [pc EXCEPT ![i] = "raised"]
           ELSE /\ pc' = [pc EXCEPT ![i] = "mkdtemp"]
                /\ UNCHANGED outcome
    /\ UNCHANGED <<self, fs, tmpdir, project_root, proc, log>>

\* A plausible slip: one fixed extraction directory, made if not there.
EnterTempDirFixed(i) ==
    /\ pc[i] = "mkdtemp"
    /\ fs' = fs \cup {Dir(<<"tmpA">>)}
    /\ tmpdir' = [tmpdir EXCEPT ![i] = "tmpA"]
    /\ log' = Logged(i, "mkdtemp", TRUE)
    /\ pc' = [pc EXCEPT ![i] = "extract"]
    /\ UNCHANGED <<self, zip, project_root, proc, outcome>>

\* with tempfile.TemporaryDirectory() as tmpdir: a directory of a name no
\* existing directory has.
EnterTempDir(i) ==
    /\ pc[i] = "mkdtemp"
    /\ \E name \in TmpNames :
        /\ ~\E n \in fs : n.path[1] = name
        /\ fs' = fs \cup {Dir(<<name>>)}
        /\ tmpdir' = [tmpdir EXCEPT ![i] = name]
    /\ log' = Logged(i, "mkdtemp", TRUE)
    /\ pc' = [pc EXCEPT ![i] = "extract"]
    /\ UNCHANGED <<self, zip, project_root, proc, outcome>>

\* with zipfile.ZipFile(zip_path) as zf: zf.extractall(tmpdir_path).  A
\* member that does not decode stops the extraction part way.
Extract(i) ==
    /\ pc[i] = "extract"
    /\ LET z == zip[i]
           dest == <<tmpdir[i]>>
       IN  IF ~z.is_file
           THEN /\ outcome' = [outcome EXCEPT ![i] = Raise("FileNotFoundError", "")]
                /\ pc' = [pc EXCEPT ![i] = "exit"]
                /\ log' = Logged(i, "extract", FALSE)
                /\ UNCHANGED fs
           ELSE IF z.corrupt = "header"
           THEN /\ outcome' = [outcome EXCEPT ![i] = Raise("BadZipFile", "")]
                /\ pc' = [pc EXCEPT ![i] = "exit"]
                /\ log' = Logged(i, "extract", FALSE)
                /\ UNCHANGED fs
           ELSE IF z.corrupt = "member"
           THEN /\ \E part \in SUBSET z.nodes :
                    /\ part # z.nodes
                    /\ ParentClosed(part)
                    /\ fs' = fs \cup ExtractAll(part, dest)
                /\ outcome' = [outcome EXCEPT ![i] = Raise("BadZipFile", "")]
                /\ pc' = [pc EXCEPT ![i] = "exit"]
                /\ log' = Logged(i, "extract", FALSE)
           ELSE /\ fs' = fs \cup ExtractAll(z.nodes, dest)
                /\ pc' = [pc EXCEPT ![i] = "detect"]
                /\ log' = Logged(i, "extract", TRUE)
                /\ UNCHANGED outcome
    /\ UNCHANGED <<self, zip, tmpdir, project_root, proc>>

\* project_root = self._detect_project_root(tmpdir_path)
DetectRoot(i) ==
    /\ pc[i] = "detect"
    /\ project_root' = [project_root EXCEPT ![i] = DetectProjectRoot(fs, <<tmpdir[i]>>)]
    /\ log' = Logged(i, "detect", TRUE)
    /\ pc' = [pc EXCEPT ![i] = "git_init"]
    /\ UNCHANGED <<self, fs, zip, tmpdir, proc, outcome>>

\* The git command the invocation stands before, and where it goes next.
GitStep(p) ==
    CASE p = "git_init" -> [step |-> "git init", next |-> "git_add"]
      [] p = "git_add" -> [step |-> "git add", next |-> "git_commit"]
      [] OTHER -> [step |-> "git commit", next |-> "linguist"]

\* A plausible slip: run_git without check=True.
RunGitUnchecked(i) ==
    /\ pc[i] \in {"git_init", "git_add", "git_commit"}
    /\ \E res \in {"ok", "nonzero"} :
        /\ log' = Logged(i, GitStep(pc[i]).step, res = "ok")
        /\ fs' = IF pc[i] = "git_init" /\ res = "ok"
                 THEN fs \cup {Dir(project_root[i] \o <<".git">>)}
                 ELSE fs
    /\ pc' = [pc EXCEPT ![i] = GitStep(pc[i]).next]
    /\ UNCHANGED <<self, zip, tmpdir, project_root, proc, outcome>>

\* One run_git of _init_git_repo: git succeeds, exits non-zero
\* (check=True raises CalledProcessError) or cannot be started.
RunGit(i) ==
    /\ pc[i] \in {"git_init", "git_add", "git_commit"}
    /\ \E res \in {"ok", "nonzero", "enoent"} :
        /\ log' = Logged(i, GitStep(pc[i]).step, res = "ok")
        /\ IF res = "ok"
           THEN /\ fs' = IF pc[i] = "git_init"
                         THEN fs \cup {Dir(project_root[i] \o <<".git">>)}
                         ELSE fs
                /\ pc' = [pc EXCEPT ![i] = GitStep(pc[i]).next]
                /\ UNCHANGED outcome
           ELSE /\ outcome' = [outcome EXCEPT ![i] =
                       Raise(IF res = "nonzero" THEN "CalledProcessError"
                             ELSE "FileNotFoundError", GitStep(pc[i]).step)]
                /\ pc' = [pc EXCEPT ![i] = "exit"]
                /\ UNCHANGED fs
    /\ UNCHANGED <<self, zip, tmpdir, project_root, proc>>

\* A plausible slip: the exit code is tested in local mode only.
ExecuteLinguistLocalTest(i, outs) ==
    /\ pc[i] = "linguist"
    /\ LET cmd == Cmd(self, <<"--breakdown", "--json", ".">>, project_root[i])
       IN  \E rc \in ReturnCodes, err \in Stderrs :
               \E out \in (IF rc = 0 THEN outs ELSE FailStdouts) :
                   /\ proc' = [proc EXCEPT ![i] =
                          [ran |-> TRUE, cmd |-> cmd, returncode |-> rc,
                           stdout |-> out, stderr |-> err]]
                   /\ IF rc # 0 /\ ~self.use_docker
                      THEN /\ outcome' = [outcome EXCEPT ![i] =
                                  [Raise("RuntimeError", "github-linguist failed")
                                      EXCEPT !.code = rc, !.stderr = err]]
                           /\ pc' = [pc EXCEPT ![i] = "exit"]
                           /\ log' = Logged(i, "linguist", FALSE)
                      ELSE /\ pc' = [pc EXCEPT ![i] = "collect"]
                           /\ log' = Logged(i, "linguist", TRUE)
                           /\ UNCHANGED outcome
    /\ UNCHANGED <<self, fs, zip, tmpdir, project_root>>

\* A plausible slip: a wrapper that, its local classifier missing, turns to
\* the container for the calls to come.
ExecuteLinguistFallback(i, outs) ==
    /\ pc[i] = "linguist"
    /\ LET cmd == Cmd(self, <<"--breakdown", "--json", ".">>, project_root[i])
       IN  \/ /\ proc' = [proc EXCEPT ![i] = [NoProc EXCEPT !.cmd = cmd]]
              /\ outcome' = [outcome EXCEPT ![i] = Raise("FileNotFoundError", cmd.prog)]
              /\ pc' = [pc EXCEPT ![i] = "exit"]
              /\ log' = Logged(i, "linguist", FALSE)
              /\ self' = [self EXCEPT !.use_docker = TRUE]
           \/ /\ \E rc \in ReturnCodes, err \in Stderrs :
                  \E out \in (IF rc = 0 THEN outs ELSE FailStdouts) :
                      /\ proc' = [proc EXCEPT ![i] =
                             [ran |-> TRUE, cmd |-> cmd, returncode |-> rc,
                              stdout |-> out, stderr |-> err]]
                      /\ IF rc # 0
                         THEN /\ outcome' = [outcome EXCEPT ![i] =
                                     [Raise("RuntimeError", "github-linguist failed")
                                         EXCEPT !.code = rc, !.stderr = err]]
                              /\ pc' = [pc EXCEPT ![i] = "exit"]
                              /\ log' = Logged(i, "linguist", FALSE)
                         ELSE /\ pc' = [pc EXCEPT ![i] = "collect"]
                              /\ log' = Logged(i, "linguist", TRUE)
                              /\ UNCHANGED outcome
              /\ UNCHANGED self
    /\ UNCHANGED <<fs, zip, tmpdir, project_root>>

\* _execute_linguist: the classifier runs, locally or in a container; it
\* cannot be started, exits non-zero, or exits 0 having printed out.
ExecuteLinguist(i, outs) ==
    /\ pc[i] = "linguist"
    /\ LET cmd == Cmd(self, <<"--breakdown", "--json", ".">>, project_root[i])
       IN  \/ /\ proc' = [proc EXCEPT ![i] = [NoProc EXCEPT !.cmd = cmd]]
              /\ outcome' = [outcome EXCEPT ![i] = Raise("FileNotFoundError", cmd.prog)]
              /\ pc' = [pc EXCEPT ![i] = "exit"]
              /\ log' = Logged(i, "linguist", FALSE)
           \/ \E rc \in ReturnCodes, err \in Stderrs :
                  \E out \in (IF rc = 0 THEN outs ELSE FailStdouts) :
                      /\ proc' = [proc EXCEPT ![i] =
                             [ran |-> TRUE, cmd |-> cmd, returncode |-> rc,
                              stdout |-> out, stderr |-> err]]
                      /\ IF rc # 0
                         THEN /\ outcome' = [outcome EXCEPT ![i] =
                                     [Raise("RuntimeError", "github-linguist failed")
                                         EXCEPT !.code = rc, !.stderr = err]]
                              /\ pc' = [pc EXCEPT ![i] = "exit"]
                              /\ log' = Logged(i, "linguist", FALSE)
                         ELSE /\ pc' = [pc EXCEPT ![i] = "collect"]
                              /\ log' = Logged(i, "linguist", TRUE)
                              /\ UNCHANGED outcome
    /\ UNCHANGED <<self, fs, zip, tmpdir, project_root>>

\* json.loads(output) and the rest of _collect_language_stats.
CollectLanguageStats(i) ==
    /\ pc[i] = "collect"
    /\ LET o == CollectOutcome(proc[i].stdout, fs, project_root[i])
       IN  /\ outcome' = [outcome EXCEPT ![i] = o]
           /\ log' = Logged(i, "collect", o.kind = "return")
    /\ pc' = [pc EXCEPT ![i] = "exit"]
    /\ UNCHANGED <<self, fs, zip, tmpdir, project_root, proc>>

\* A plausible slip: the directory removed on the normal path only
\* (mkdtemp and a trailing rmtree in place of the with block).
ExitTempDirOnReturn(i) ==
    /\ pc[i] = "exit"
    /\ fs' = IF outcome[i].kind = "return"
             THEN {n \in fs : ~Under(<<tmpdir[i]>>, n.path)}
             ELSE fs
    /\ pc' = [pc EXCEPT ![i] = IF outcome[i].kind = "return" THEN "returned" ELSE "raised"]
    /\ UNCHANGED <<self, zip, tmpdir, project_root, proc, outcome, log>>

\* Leaving the with block, by return or by exception: TemporaryDirectory
\* removes the directory and all under it, then the result goes to the caller.
ExitTempDir(i) ==
    /\ pc[i] = "exit"
    /\ fs' = {n \in fs : ~Under(<<tmpdir[i]>>, n.path)}
    /\ pc' = [pc EXCEPT ![i] = IF outcome[i].kind = "return" THEN "returned" ELSE "raised"]
    /\ UNCHANGED <<self, zip, tmpdir, project_root, proc, outcome, log>>

\* The caller has the result or the exception; the wrapper may be called again.
CallerContinues(i) ==
    /\ pc[i] \in {"returned", "raised"}
    /\ pc' = [pc EXCEPT ![i] = "idle"]
    /\ zip' = [zip EXCEPT ![i] = NoZip]
    /\ tmpdir' = [tmpdir EXCEPT ![i] = ""]
    /\ project_root' = [project_root EXCEPT ![i] = <<>>]
    /\ proc' = [proc EXCEPT ![i] = NoProc]
    /\ outcome' = [outcome EXCEPT ![i] = NoOutcome]
    /\ log' = [log EXCEPT ![i] = <<>>]
    /\ UNCHANGED <<self, fs>>

Next ==
    \E i \in Invs :
        \/ AnalyzeZip(i, ZipInputs)
        \/ EnterTempDir(i)
        \/ Extract(i)
        \/ DetectRoot(i)
        \/ RunGit(i)
        \/ ExecuteLinguist(i, Stdouts)
        \/ CollectLanguageStats(i)
        \/ ExitTempDir(i)
        \/ CallerContinues(i)

Spec == Init /\ [][Next]_vars

\* analyze_zip called on the wrapper once the invocations before it are over.
CallAfter(i) ==
    /\ pc[i] = "off"
    /\ \A j \in Invs : j < i => pc[j] \in {"returned", "raised"}
    /\ pc' = [pc EXCEPT ![i] = "idle"]
    /\ UNCHANGED <<self, fs, zip, tmpdir, project_root, proc, outcome, log>>

\* The caller of a later invocation has its result and calls once more.
CallAgain(i) ==
    /\ \E j \in Invs : j < i
    /\ CallerContinues(i)

\* A first invocation, then later invocations one after the other.
NextSeq ==
    \E i \in Invs :
        \/ AnalyzeZip(i, ConcZips)
        \/ EnterTempDir(i)
        \/ Extract(i)
        \/ DetectRoot(i)
        \/ RunGit(i)
        \/ ExecuteLinguist(i, ConcStdouts)
        \/ CollectLanguageStats(i)
        \/ ExitTempDir(i)
        \/ CallAfter(i)
        \/ CallAgain(i)

SpecSeq == Init /\ [][NextSeq]_vars

NextConc ==
    \E i \in Invs :
        \/ AnalyzeZip(i, ConcZips)
        \/ EnterTempDir(i)
        \/ Extract(i)
        \/ DetectRoot(i)
        \/ RunGit(i)
        \/ ExecuteLinguist(i, ConcStdouts)
        \/ CollectLanguageStats(i)
        \/ ExitTempDir(i)
        \/ CallerContinues(i)

SpecConc == InitConc /\ [][NextConc]_vars

NextProject ==
    \E i \in Invs :
        \/ AnalyzeZip(i, ProjectZips)
        \/ EnterTempDir(i)
        \/ Extract(i)
        \/ DetectRoot(i)
        \/ RunGit(i)
        \/ ExecuteLinguist(i, ProjectStdouts)
        \/ CollectLanguageStats(i)
        \/ ExitTempDir(i)
        \/ CallerContinues(i)

\* The end-to-end runs on the two-file project.
SpecProject == Init /\ [][NextProject]_vars

NextCount ==
    \E i \in Invs :
        \/ CollectLanguageStats(i)
        \/ ExitTempDir(i)

SpecCount == InitCount /\ [][NextCount]_vars

(***************************************************************************)
(* Properties.                                                             *)
(***************************************************************************)
Terminal(i) == pc[i] \in {"returned", "raised"}

\* The invocation has run _detect_project_root.
Detected(i) == \E k \in 1..Len(log[i]) : log[i][k].step = "detect"

\* The classifier process of the invocation ran to its exit.
Exited(i) == proc[i].ran

\* The nodes of the temporary area under the invocation's directory.
Residue(i) == {n \in fs : Under(<<tmpdir[i]>>, n.path)}

\* The top-level entries of the invocation's archive, without those named in skip.
TopLevel(i, skip) == {n \in zip[i].nodes : Len(n.path) = 1 /\ n.path[1] \notin skip}

\* C1: once analyze_zip has returned or raised after creating its
\* extraction directory, neither the directory nor anything under it exists,
\* whichever way the operation ended.
C1_ExtractionDirRemoved ==
    \A i \in Invs : (Terminal(i) /\ tmpdir[i] # "") => Residue(i) = {}

\* An invocation raised by a failing git command, after a whole extraction.
C1_Witness ==
    \E i \in Invs :
        /\ pc[i] = "raised"
        /\ outcome[i].exc = "CalledProcessError"
        /\ tmpdir[i] # ""
        /\ \E n \in zip[i].nodes : Len(n.path) = 2

\* C2: the languages of the returned mapping are exactly the keys of the
\* classifier's report, whatever the entries' sizes and file lists.
C2_KeysAreReportKeys ==
    \A i \in Invs :
        outcome[i].kind = "return"
            => DOMAIN outcome[i].value = DOMAIN proc[i].stdout.value.map

\* A returned mapping of three languages whose report has an entry of size
\* 0, one with no size and one with no file list.
C2_Witness ==
    \E i \in Invs :
        /\ pc[i] = "returned"
        /\ DOMAIN outcome[i].value = Languages
        /\ LET data == proc[i].stdout.value.map
           IN  /\ \E l \in DOMAIN data : data[l].has_size /\ data[l].size = 0
               /\ \E l \in DOMAIN data : ~data[l].has_size
               /\ \E l \in DOMAIN data : ~data[l].has_files

\* C3: every percentage of a returned mapping lies in [0, 100].
C3_PercentInRange ==
    \A i \in Invs :
        outcome[i].kind = "return"
            => \A l \in DOMAIN outcome[i].value :
                   /\ outcome[i].value[l].percent >= 0
                   /\ outcome[i].value[l].percent <= 10000

\* A returned mapping with a language at 100.00 and another at 0.00.
C3_Witness ==
    \E i \in Invs :
        /\ pc[i] = "returned"
        /\ \E l \in DOMAIN outcome[i].value : outcome[i].value[l].percent = 10000
        /\ \E l \in DOMAIN outcome[i].value : outcome[i].value[l].percent = 0

\* The sum of the percentages of a returned mapping, in hundredths.
PercentSum(i) ==
    SumOver([l \in DOMAIN outcome[i].value |-> outcome[i].value[l].percent],
            DOMAIN outcome[i].value)

\* C4: when some language of the report has a nonzero size, the rounded
\* percentages of the returned mapping sum to 100.00 within 0.005 per
\* language (half a hundredth each).
C4_PercentSum ==
    \A i \in Invs :
        (/\ outcome[i].kind = "return"
         /\ \E l \in DOMAIN proc[i].stdout.value.map :
                GetSize(proc[i].stdout.value.map[l]) # 0)
            => LET n == Cardinality(DOMAIN outcome[i].value)
                   d == PercentSum(i) - 10000
               IN  2 * d <= n /\ -2 * d <= n

\* A returned mapping whose percentages sum to 99.99: three equal sizes.
C4_Witness ==
    \E i \in Invs : pc[i] = "returned" /\ PercentSum(i) = 9999

\* C5: the chosen root is the single subdirectory exactly when, __MACOSX
\* aside, the archive's top level has exactly one subdirectory and no
\* regular file; in every other case it is the extraction directory; the
\* root is never deeper than one level below the extraction directory.
C5_RootRule ==
    \A i \in Invs :
        Detected(i) =>
            LET top == TopLevel(i, {"__MACOSX"})
                subdirs == {n \in top : n.kind = "dir"}
                files == {n \in top : n.kind = "file"}
                single == Cardinality(subdirs) = 1 /\ files = {}
            IN  /\ single <=> \E d \in subdirs : project_root[i] = <<tmpdir[i]>> \o d.path
                /\ ~single <=> project_root[i] = <<tmpdir[i]>>
                /\ Len(project_root[i]) <= 2

\* A doubly wrapped project, unwrapped once.
C5_Witness ==
    \E i \in Invs :
        /\ Detected(i)
        /\ Dir(<<"project", "inner">>) \in zip[i].nodes
        /\ project_root[i] = <<tmpdir[i], "project">>

\* C6 as stated: a single top-level entry that is a directory is the root;
\* several top-level entries or any top-level file make the extraction
\* directory the root.
C6_AsStated ==
    \A i \in Invs :
        Detected(i) =>
            LET top == TopLevel(i, {})
            IN  /\ (Cardinality(top) = 1 /\ \A n \in top : n.kind = "dir")
                       => \E d \in top : project_root[i] = <<tmpdir[i]>> \o d.path
                /\ (Cardinality(top) >= 2 \/ \E n \in top : n.kind = "file")
                       => project_root[i] = <<tmpdir[i]>>

\* C6, amended: the same with the top-level entry named __MACOSX not counted.
C6_NotCountingMacosx ==
    \A i \in Invs :
        Detected(i) =>
            LET top == TopLevel(i, {"__MACOSX"})
            IN  /\ (Cardinality(top) = 1 /\ \A n \in top : n.kind = "dir")
                       => \E d \in top : project_root[i] = <<tmpdir[i]>> \o d.path
                /\ (Cardinality(top) >= 2 \/ \E n \in top : n.kind = "file")
                       => project_root[i] = <<tmpdir[i]>>

\* An archive of __MACOSX and one folder: the folder is the root.
C6_Witness ==
    \E i \in Invs :
        /\ Detected(i)
        /\ TopLevel(i, {}) = {Dir(<<"__MACOSX">>), Dir(<<"project">>)}
        /\ project_root[i] = <<tmpdir[i], "project">>

\* C7: a path that is no regular file ends the invocation with a not-found
\* error and nothing else: no temporary directory, no archive opened, no
\* git and no classifier started.
C7_NotFoundFirst ==
    \A i \in Invs :
        (pc[i] \notin {"off", "idle"} /\ ~zip[i].is_file) =>
            /\ pc[i] = "raised"
            /\ outcome[i].kind = "raise"
            /\ outcome[i].exc = "FileNotFoundError"
            /\ tmpdir[i] = ""
            /\ log[i] = <<>>
            /\ ~proc[i].ran

\* An invocation on a missing path that has raised.
C7_Witness ==
    \E i \in Invs : pc[i] = "raised" /\ ~zip[i].is_file

\* C8: in either mode a classifier that exits non-zero makes the invocation
\* raise an error carrying that exit code and the captured standard error;
\* no mapping is returned and no temporary directory is left.
C8_ClassifierFailure ==
    \A i \in Invs :
        (Exited(i) /\ proc[i].returncode # 0) =>
            /\ pc[i] \in {"exit", "raised"}
            /\ outcome[i].kind = "raise"
            /\ outcome[i].exc = "RuntimeError"
            /\ outcome[i].code = proc[i].returncode
            /\ outcome[i].stderr = proc[i].stderr
            /\ outcome[i].value = NoMap
            /\ pc[i] = "raised" => Residue(i) = {}

\* A container run that exited 2 with text on standard error and a whole
\* report on standard output.
C8_Witness ==
    \E i \in Invs :
        /\ pc[i] = "raised"
        /\ self.use_docker
        /\ proc[i].cmd.prog = "docker"
        /\ proc[i].returncode = 2
        /\ proc[i].stderr = "boom"
        /\ proc[i].stdout.parseable

\* C9: after an exit code of 0, output that does not parse, is no mapping
\* or decodes to an empty result makes the invocation raise; the empty
\* result raises the "returned empty result" error, and a returned mapping
\* is never empty.
C9_MalformedReport ==
    \A i \in Invs :
        (Exited(i) /\ proc[i].returncode = 0 /\ pc[i] \in {"exit", "returned", "raised"}) =>
            LET out == proc[i].stdout
            IN  /\ (~out.parseable \/ out.value.type # "object" \/ ~Truthy(out.value))
                       => outcome[i].kind = "raise"
                /\ (out.parseable /\ ~Truthy(out.value))
                       => /\ outcome[i].exc = "RuntimeError"
                          /\ outcome[i].msg = "github-linguist returned empty result"
                /\ outcome[i].kind = "return" => DOMAIN outcome[i].value # {}

\* The classifier exited 0 having printed {}: the invocation raised.
C9_Witness ==
    \E i \in Invs :
        /\ pc[i] = "raised"
        /\ Exited(i)
        /\ proc[i].returncode = 0
        /\ proc[i].stdout = [parseable |-> TRUE, value |-> JsonObject(NoMap)]

\* The number of newline bytes of a byte sequence.
NewlineBytes(bytes) == Cardinality({k \in 1..Len(bytes) : bytes[k] = NL})

\* The project root as a path inside the archive.
RootInArchive(i) == Tail(project_root[i])

\* The newline bytes of the archive's readable regular file at the path f
\* below the project root; 0 when there is no such file.
NewlinesAt(i, f) ==
    LET hits == {n \in zip[i].nodes :
                    n.path = RootInArchive(i) \o f /\ n.kind = "file" /\ n.readable}
    IN  IF hits = {} THEN 0 ELSE NewlineBytes((CHOOSE n \in hits : TRUE).bytes)

RECURSIVE NewlinesOfList(_, _)
NewlinesOfList(i, files) ==
    IF files = <<>> THEN 0
    ELSE NewlinesAt(i, Head(files)) + NewlinesOfList(i, Tail(files))

\* The classifier exited 0 and printed a non-empty mapping of entries.
ReportAccepted(i) ==
    /\ Exited(i)
    /\ proc[i].returncode = 0
    /\ proc[i].stdout.parseable
    /\ proc[i].stdout.value.type = "object"
    /\ Truthy(proc[i].stdout.value)
    /\ \A l \in DOMAIN proc[i].stdout.value.map : proc[i].stdout.value.map[l].isdict

\* The aggregation of the invocation is over.
Collected(i) == \E k \in 1..Len(log[i]) : log[i][k].step = "collect"

C12_LinesAreNewlineBytes ==
    \A i \in Invs :
        /\ \A n \in zip[i].nodes :
               n.kind = "file" => CountChunks(n.bytes, 0) = NewlineBytes(n.bytes)
        /\ Collected(i) =>
               /\ outcome[i].kind = "return"
               /\ \A l \in DOMAIN outcome[i].value :
                      outcome[i].value[l].lines =
                          SumOver([n \in zip[i].nodes |-> NewlineBytes(n.bytes)], zip[i].nodes)

\* Two files with the same number of newline bytes, one of exactly two
\* chunks and one a byte shorter, counted to twice that number.
C12_Witness ==
    \E i \in Invs :
        /\ pc[i] = "returned"
        /\ \E a, b \in zip[i].nodes :
               /\ Len(a.bytes) = 2 * ChunkSize
               /\ Len(b.bytes) = 2 * ChunkSize - 1
               /\ a.bytes[ChunkSize] = NL
               /\ a.bytes[ChunkSize + 1] = NL
               /\ NewlineBytes(a.bytes) = NewlineBytes(b.bytes)
               /\ outcome[i].value["Python"].lines = 2 * NewlineBytes(a.bytes)

\* The invocation is inside its with block: its extraction directory exists.
Alive(i) ==
    pc[i] \in {"extract", "detect", "git_init", "git_add", "git_commit",
               "linguist", "collect", "exit"}

\* The temporary area of an invocation that runs alone, after a whole
\* extraction and git init: its directory, the archive's nodes, .git.
AloneFs(i) ==
    LET dest == <<tmpdir[i]>>
        extracted == {Dir(dest)} \cup ExtractAll(zip[i].nodes, dest)
    IN  extracted \cup {Dir(DetectProjectRoot(extracted, dest) \o <<".git">>)}

\* What the aggregation of an invocation that runs alone returns or raises.
AloneOutcome(i) ==
    CollectOutcome(proc[i].stdout, AloneFs(i),
                   DetectProjectRoot(AloneFs(i) \ {n \in AloneFs(i) : Name(n) = ".git"},
                                     <<tmpdir[i]>>))

\* Two invocations inside their with blocks have different directories, each
\* works below its own directory, and an aggregation gives what it gives alone.
Separate ==
    \A i \in Invs :
        /\ \A j \in Invs \ {i} : (Alive(i) /\ Alive(j)) => tmpdir[i] # tmpdir[j]
        /\ (Alive(i) /\ project_root[i] # <<>>) => Under(<<tmpdir[i]>>, project_root[i])
        /\ (Alive(i) /\ proc[i].cmd # NoCmd) =>
               /\ Under(<<tmpdir[i]>>, proc[i].cmd.cwd \o proc[i].cmd.volume)
               /\ proc[i].cmd.cwd \o proc[i].cmd.volume = project_root[i]
        /\ Collected(i) => outcome[i] = AloneOutcome(i)

\* A step of one invocation leaves all under the directory of another
\* invocation that is inside its with block as it was.
StepsKeepApart ==
    \A i \in Invs : \A j \in Invs \ {i} :
        (pc'[i] # pc[i] /\ Alive(j)) =>
            {n \in fs' : Under(<<tmpdir[j]>>, n.path)} = Residue(j)

\* C13: concurrent invocations, however their steps interleave, use distinct
\* extraction directories, touch nothing under each other's directory, and
\* each returns what it returns when run alone.
C13_InvocationsIsolated == []Separate /\ [][StepsKeepApart]_vars

\* Both invocations about to leave their with blocks at once, each with its
\* own tree still there and its own line count.
C13_Witness ==
    /\ pc[1] = "exit" /\ pc[2] = "exit"
    /\ Residue(1) # {} /\ Residue(2) # {}
    /\ outcome[1].kind = "return" /\ outcome[1].value["Python"].lines = 2
    /\ outcome[2].kind = "return" /\ outcome[2].value["Python"].lines = 1

\* The invocation analysed the two-file project and the classifier, exiting
\* 0, printed the project's report; the aggregation is over.
ProjectRun(i) ==
    /\ zip[i] = [is_file |-> TRUE, corrupt |-> "none", nodes |-> ProjectArchive]
    /\ Exited(i)
    /\ proc[i].returncode = 0
    /\ proc[i].stdout = ProjectReport
    /\ Collected(i)

\* C14 as stated: the run returns Python at 25.00 with 10 lines and
\* JavaScript at 75.00 with 30 lines, the fields named percentage and lines.
C14_AsStated ==
    \A i \in Invs :
        ProjectRun(i) =>
            /\ outcome[i].kind = "return"
            /\ DOMAIN outcome[i].value = {"Python", "JavaScript"}
            /\ \A l \in DOMAIN outcome[i].value :
                   DOMAIN outcome[i].value[l] = {"percentage", "lines"}
            /\ outcome[i].value["Python"].lines = 10
            /\ outcome[i].value["JavaScript"].lines = 30

\* C14, amended: the same mapping with the fields named percent and lines.
C14_PercentAndLines ==
    \A i \in Invs :
        ProjectRun(i) =>
            /\ outcome[i].kind = "return"
            /\ DOMAIN outcome[i].value = {"Python", "JavaScript"}
            /\ \A l \in DOMAIN outcome[i].value :
                   DOMAIN outcome[i].value[l] = {"percent", "lines"}
            /\ outcome[i].value["Python"] = [percent |-> 2500, lines |-> 10]
            /\ outcome[i].value["JavaScript"] = [percent |-> 7500, lines |-> 30]

\* The run has returned to its caller.
C14_Witness ==
    \E i \in Invs :
        /\ ProjectRun(i)
        /\ pc[i] = "returned"
        /\ project_root[i] = <<tmpdir[i], "project">>

\* The sum of the sizes of the invocation's report, a missing size being 0.
SizeSum(i) ==
    LET data == proc[i].stdout.value.map
    IN  SumOver([l \in DOMAIN data |-> IF data[l].has_size THEN data[l].size ELSE 0],
                DOMAIN data)

\* C15: every percentage is size * 100 / max(1, sum of sizes) rounded to two
\* decimals, that is the hundredth nearest to it; the divisor is at least
\* 1, and a report of zero sizes gives 0.00 for every language.
C15_DivisorAtLeastOne ==
    \A i \in Invs :
        (ReportAccepted(i) /\ outcome[i].kind = "return") =>
            LET data == proc[i].stdout.value.map
                divisor == IF SizeSum(i) > 1 THEN SizeSum(i) ELSE 1
            IN  /\ divisor >= 1
                /\ TotalBytes(data) = divisor
                /\ \A l \in DOMAIN data :
                       LET e == outcome[i].value[l].percent * divisor
                                    - GetSize(data[l]) * 10000
                       IN  2 * e <= divisor /\ -2 * e <= divisor
                /\ SizeSum(i) = 0 =>
                       \A l \in DOMAIN data : outcome[i].value[l].percent = 0

\* A returned mapping of three languages for a report of zero sizes.
C15_Witness ==
    \E i \in Invs :
        /\ pc[i] = "returned"
        /\ SizeSum(i) = 0
        /\ DOMAIN outcome[i].value = Languages
        /\ \A l \in Languages : outcome[i].value[l].percent = 0

\* What the world outside did in the invocation: how far each program it
\* started got, the way git failed if it did, and what the classifier gave.
Behaviour(i) ==
    LET n == Len(log[i])
    IN  [steps |-> SelectSeq(log[i], LAMBDA e : e.step # "collect"),
         git_error |-> IF /\ n > 0
                          /\ log[i][n].step \in {"git init", "git add", "git commit"}
                          /\ ~log[i][n].ok
                       THEN outcome[i].exc ELSE "",
         classifier |-> [proc[i] EXCEPT !.cmd = NoCmd]]

\* Two finished invocations on the same archive with the same behaviour of
\* git and of the classifier have the same outcome.
SameInSameOut ==
    \A i \in Invs : \A j \in Invs \ {i} :
        (/\ Terminal(i) /\ Terminal(j)
         /\ zip[i] = zip[j]
         /\ Behaviour(i) = Behaviour(j)) => outcome[i] = outcome[j]

\* No step changes use_docker, linguist_cmd or docker_image.
ConfigurationKept == self' = self

\* C16: an invocation made after earlier invocations on the same wrapper,
\* whatever they were given and however they ended, has the outcome of the
\* first invocation on the same archive with the same classifier behaviour,
\* and no invocation changes use_docker, linguist_cmd or docker_image.
C16_NoStateBetweenCalls == []SameInSameOut /\ [][ConfigurationKept]_vars

\* A later invocation returned the mapping the first one returned for the
\* wrapped project, from a directory of another name.
C16_Witness ==
    /\ pc[1] = "returned" /\ pc[2] = "returned"
    /\ zip[1] = zip[2] /\ zip[1].nodes = WrappedArchive
    /\ Behaviour(1) = Behaviour(2)
    /\ tmpdir[1] # tmpdir[2]
    /\ outcome[2] = outcome[1]
    /\ outcome[2].value["Python"].lines = 2

\* The steps of an invocation, in the order of the code.
Pipeline ==
    <<"mkdtemp", "extract", "detect", "git init", "git add", "git commit",
      "linguist", "collect">>

\* C10: the steps an invocation started are a prefix of the pipeline, so
\* each is started at most once and in the fixed order, and every step but
\* the last started one succeeded: nothing runs after a failure, and the
\* classifier runs only after extraction and the three git commands succeeded.
C10_FailFastInOrder ==
    \A i \in Invs :
        /\ Len(log[i]) <= Len(Pipeline)
        /\ \A k \in 1..Len(log[i]) :
               /\ log[i][k].step = Pipeline[k]
               /\ k < Len(log[i]) => log[i][k].ok
        /\ outcome[i].kind = "return" => Len(log[i]) = Len(Pipeline)

\* An invocation whose git add failed: it raised with git add its last step.
C10_Witness ==
    \E i \in Invs :
        /\ pc[i] = "raised"
        /\ Len(log[i]) = 5
        /\ log[i][5] = [step |-> "git add", ok |-> FALSE]

====
